---- MODULE Spec2Model ----
(***************************************************************************)
(* eVTOL fleet simulation: the event-driven kernel (SimulationEngine and   *)
(* EventDrivenSimulation), the ChargerManager and the StatisticsCollector. *)
(*                                                                         *)
(* Time is counted in ticks of 1/17400 hour, the unit in which every       *)
(* flight time and charge time of the five aircraft specs is a whole       *)
(* number.  Distances are counted in mile-ticks (miles * TicksPerHour).    *)
(***************************************************************************)
EXTENDS Integers, Sequences, FiniteSets, TLC

\* ------------------------------------------------------------------ bounds
MaxFleet == 3
MaxHorizonTwelfths == 21
FaultSteps == 1
MaxRecords == 2
MaxStatArg == 1
MaxQueue == 2

\* ------------------------------------------------------- program constants
NUM_CHARGERS == 3

TicksPerHour == 3 * 8 * 29 * 25

AircraftType == {"ALPHA", "BETA", "CHARLIE", "DELTA", "ECHO"}

\* AircraftSpec of each type; energy consumption in tenths of kWh/mile and
\* charge time in hundredths of an hour.
AircraftSpec ==
    [ALPHA   |-> [cruise_speed_mph |-> 120, battery_capacity_kwh |-> 320,
                  charge_hundredths |-> 60, passenger_count |-> 4, energy_tenths |-> 16],
     BETA    |-> [cruise_speed_mph |-> 100, battery_capacity_kwh |-> 100,
                  charge_hundredths |-> 20, passenger_count |-> 5, energy_tenths |-> 15],
     CHARLIE |-> [cruise_speed_mph |-> 160, battery_capacity_kwh |-> 220,
                  charge_hundredths |-> 80, passenger_count |-> 3, energy_tenths |-> 22],
     DELTA   |-> [cruise_speed_mph |-> 90, battery_capacity_kwh |-> 120,
                  charge_hundredths |-> 62, passenger_count |-> 2, energy_tenths |-> 8],
     ECHO    |-> [cruise_speed_mph |-> 30, battery_capacity_kwh |-> 150,
                  charge_hundredths |-> 30, passenger_count |-> 2, energy_tenths |-> 58]]

EventType == {"FLIGHT_COMPLETE", "CHARGING_COMPLETE", "FAULT_OCCURRED"}

\* The two kernels and the value of enable_partial_flights_ each runs with:
\* SimulationEngine has no such member and never moves an event to the
\* horizon; EventDrivenSimulation is built with the default, true.
Engines == {<<"SimulationEngine", FALSE>>,
            <<"EventDrivenSimulation", TRUE>>}

VARIABLES
    engine,                     \* which kernel class runs
    enable_partial_flights_,
    fleet,                      \* aircraft id -> AircraftType
    battery_level_,             \* aircraft id -> 0 or 1
    is_faulty_,                 \* aircraft id -> BOOLEAN
    event_queue_,               \* set of pending events
    current_time_hours_,
    simulation_duration_hours_,
    waiting_start_times_,
    flight_start_times_,
    charging_start_times_,
    waiting_queue_,
    available_chargers_,
    aircraft_to_charger_map_,
    active_chargers_,
    stats_,
    pc,                         \* position in run_simulation
    init_idx,                   \* next aircraft of schedule_initial_flights
    next_seq,                   \* history: number of events inserted so far
    last_dispatched,            \* history: the event dispatched last
    arbiter_calls,              \* history: ChargerManager calls of the last handler
    enq_log,                    \* history: add_to_queue calls, in order
    promo_log,                  \* history: promotions, in order
    partial_rec,                \* history: partial records per aircraft
    loop_broke,                 \* history: the loop ended by the break
    run_no,                     \* 0: a single run; 1, 2: first and second of two runs
    first_stats,                \* the statistics the first run ended with
    step_log,                   \* the draws and container choices of the first run
    step_idx,                   \* the second run's position in step_log
    aircraft_frame_data_        \* FrameBasedSimulationEngine: aircraft index -> frame data

kernelVars == <<engine, enable_partial_flights_, fleet, battery_level_, is_faulty_,
                event_queue_, current_time_hours_, simulation_duration_hours_,
                waiting_start_times_, flight_start_times_, charging_start_times_>>
chargerVars == <<waiting_queue_, available_chargers_, aircraft_to_charger_map_,
                 active_chargers_>>
historyVars == <<next_seq, last_dispatched, arbiter_calls, enq_log, promo_log,
                 partial_rec, loop_broke>>
replayVars == <<run_no, first_stats, step_log, step_idx>>
frameVars == <<aircraft_frame_data_>>
vars == <<kernelVars, chargerVars, stats_, pc, init_idx, historyVars, replayVars,
         frameVars>>

\* ------------------------------------------------------------- containers
EmptyMap == [x \in {} |-> 0]

MapPut(m, k, v) == [x \in (DOMAIN m) \cup {k} |-> IF x = k THEN v ELSE m[x]]

MapErase(m, k) == [x \in (DOMAIN m) \ {k} |-> m[x]]

Range(s) == {s[i] : i \in DOMAIN s}

NoEvent == [type |-> "NONE", time_hours |-> 0, aircraft_id |-> -1, flight_time |-> 0,
            distance |-> 0, fault_occurred |-> FALSE, charge_time |-> 0,
            waiting_time |-> 0, fault_time |-> 0, seq |-> -1]

\* ------------------------------------------------------------ aircraft.h
get_flight_time_hours(type, battery) ==
    (battery * AircraftSpec[type].battery_capacity_kwh * 10 * TicksPerHour)
        \div (AircraftSpec[type].cruise_speed_mph * AircraftSpec[type].energy_tenths)

get_flight_distance_miles(type, battery) ==
    get_flight_time_hours(type, battery) * AircraftSpec[type].cruise_speed_mph

get_charge_time_hours(type) ==
    (AircraftSpec[type].charge_hundredths * TicksPerHour) \div 100

get_passenger_count(type) == AircraftSpec[type].passenger_count

\* Mutant: the draw may be 1, so the fault may fall on the flight's end.
check_fault_during_flight_Inclusive(flight_time_hours) ==
    {-1} \cup {(k * flight_time_hours) \div (FaultSteps + 1) : k \in 1 .. (FaultSteps + 1)}

\* The values check_fault_during_flight can return for a flight of the given
\* duration: -1 (no fault; every type's fault probability per flight lies
\* strictly between 0 and 1) or fault_dist(rng) * flight_time with the draw
\* in [0, 1), here one of FaultSteps evenly spaced points inside the flight.
check_fault_during_flight(flight_time_hours) ==
    {-1} \cup {(k * flight_time_hours) \div (FaultSteps + 1) : k \in 1 .. FaultSteps}

\* ----------------------------------------------------------- FlightStats
ZeroStats == [total_flight_time_hours |-> 0, total_distance_miles |-> 0,
              total_charging_time_hours |-> 0, total_waiting_time_hours |-> 0,
              total_faults |-> 0, total_passenger_miles |-> 0,
              flight_count |-> 0, charge_count |-> 0,
              partial_flight_time_hours |-> 0, partial_distance_miles |-> 0,
              partial_charging_time_hours |-> 0, partial_passenger_miles |-> 0,
              partial_flight_count |-> 0, partial_charge_count |-> 0]

\* Mutant: the flight's totals are added but the flight is not counted.
add_flight_Uncounted(s, flight_time, distance, passengers) ==
    [s EXCEPT !.total_flight_time_hours = @ + flight_time,
              !.total_distance_miles = @ + distance,
              !.total_passenger_miles = @ + passengers * distance]

add_flight(s, flight_time, distance, passengers) ==
    [s EXCEPT !.total_flight_time_hours = @ + flight_time,
              !.total_distance_miles = @ + distance,
              !.total_passenger_miles = @ + passengers * distance,
              !.flight_count = @ + 1]

add_charge_session(s, charge_time, waiting_time) ==
    [s EXCEPT !.total_charging_time_hours = @ + charge_time,
              !.total_waiting_time_hours = @ + waiting_time,
              !.charge_count = @ + 1]

\* Mutant: a fault is counted twice.
add_fault_Twice(s) == [s EXCEPT !.total_faults = @ + 2]

add_fault(s) == [s EXCEPT !.total_faults = @ + 1]

\* Mutant: the partial flight is kept out of the totals.
add_partial_flight_NoTotals(s, flight_time, distance, passengers) ==
    [s EXCEPT !.partial_flight_time_hours = @ + flight_time,
              !.partial_distance_miles = @ + distance,
              !.partial_passenger_miles = @ + passengers * distance,
              !.partial_flight_count = @ + 1]

add_partial_flight(s, flight_time, distance, passengers) ==
    [s EXCEPT !.partial_flight_time_hours = @ + flight_time,
              !.partial_distance_miles = @ + distance,
              !.partial_passenger_miles = @ + passengers * distance,
              !.partial_flight_count = @ + 1,
              !.total_flight_time_hours = @ + flight_time,
              !.total_distance_miles = @ + distance,
              !.total_passenger_miles = @ + passengers * distance,
              !.flight_count = @ + 1]

\* Mutant: the partial charge's time is also booked as waiting time.
add_partial_charge_Waited(s, charge_time) ==
    [s EXCEPT !.partial_charging_time_hours = @ + charge_time,
              !.partial_charge_count = @ + 1,
              !.total_charging_time_hours = @ + charge_time,
              !.total_waiting_time_hours = @ + charge_time,
              !.charge_count = @ + 1]

add_partial_charge(s, charge_time) ==
    [s EXCEPT !.partial_charging_time_hours = @ + charge_time,
              !.partial_charge_count = @ + 1,
              !.total_charging_time_hours = @ + charge_time,
              !.charge_count = @ + 1]

\* ---------------------------------------------------- StatisticsCollector
record_flight(st, type, flight_time, distance, passengers) ==
    [st EXCEPT ![type] = add_flight(@, flight_time, distance, passengers)]

record_charge_session(st, type, charge_time, waiting_time) ==
    [st EXCEPT ![type] = add_charge_session(@, charge_time, waiting_time)]

\* Mutant: the fault is booked on the record of every type.
record_fault_EveryType(st, type) == [t \in DOMAIN st |-> add_fault(st[t])]

record_fault(st, type) == [st EXCEPT ![type] = add_fault(@)]

record_partial_flight(st, type, flight_time, distance, passengers) ==
    [st EXCEPT ![type] = add_partial_flight(@, flight_time, distance, passengers)]

record_partial_charge(st, type, charge_time) ==
    [st EXCEPT ![type] = add_partial_charge(@, charge_time)]

\* --------------------------------------------------------- ChargerManager
\* A manager state is a record of the four members of the class.
NewChargerManager ==
    [waiting_queue_ |-> << >>,
     available_chargers_ |-> 0 .. (NUM_CHARGERS - 1),
     aircraft_to_charger_map_ |-> EmptyMap,
     active_chargers_ |-> 0]

\* *available_chargers_.begin(): the container is an unordered_set, whose
\* iteration order is unspecified, so begin() is any of its elements.
BeginOf(available) == IF available = {} THEN {-1} ELSE available

\* Mutant: the last free charger is never handed out.
request_charger_ok_KeepSpare(cm) == Cardinality(cm.available_chargers_) > 1

\* What request_charger returns: whether a charger is free.
request_charger_ok(cm) == cm.available_chargers_ # {}

\* Mutant: a request that finds no charger free is counted as a charger in use.
request_charger_Overbook(cm, aircraft_id, charger_id) ==
    IF cm.available_chargers_ # {}
    THEN [cm EXCEPT !.available_chargers_ = @ \ {charger_id},
                    !.aircraft_to_charger_map_ = MapPut(@, aircraft_id, charger_id),
                    !.active_chargers_ = @ + 1]
    ELSE [cm EXCEPT !.active_chargers_ = @ + 1]

\* Mutant: a request by an aircraft that already holds a slot takes another
\* charger without counting it.
request_charger_Recount(cm, aircraft_id, charger_id) ==
    IF cm.available_chargers_ # {}
    THEN [cm EXCEPT !.available_chargers_ = @ \ {charger_id},
                    !.aircraft_to_charger_map_ = MapPut(@, aircraft_id, charger_id),
                    !.active_chargers_ =
                        IF aircraft_id \in DOMAIN cm.aircraft_to_charger_map_
                        THEN @ ELSE @ + 1]
    ELSE cm

\* request_charger with charger_id the element begin() yields.
request_charger(cm, aircraft_id, charger_id) ==
    IF cm.available_chargers_ # {}
    THEN [cm EXCEPT !.available_chargers_ = @ \ {charger_id},
                    !.aircraft_to_charger_map_ = MapPut(@, aircraft_id, charger_id),
                    !.active_chargers_ = @ + 1]
    ELSE cm

\* Mutant: releasing for an aircraft that holds no slot still counts one
\* charger less in use.
release_charger_Blind(cm, aircraft_id) ==
    IF aircraft_id \in DOMAIN cm.aircraft_to_charger_map_
    THEN [cm EXCEPT !.available_chargers_ = @ \cup {cm.aircraft_to_charger_map_[aircraft_id]},
                    !.aircraft_to_charger_map_ = MapErase(@, aircraft_id),
                    !.active_chargers_ = @ - 1]
    ELSE [cm EXCEPT !.active_chargers_ = @ - 1]

\* Mutant: the released slot is not put back into the free set.
release_charger_Leak(cm, aircraft_id) ==
    IF aircraft_id \in DOMAIN cm.aircraft_to_charger_map_
    THEN [cm EXCEPT !.aircraft_to_charger_map_ = MapErase(@, aircraft_id),
                    !.active_chargers_ = @ - 1]
    ELSE cm

release_charger(cm, aircraft_id) ==
    IF aircraft_id \in DOMAIN cm.aircraft_to_charger_map_
    THEN [cm EXCEPT !.available_chargers_ = @ \cup {cm.aircraft_to_charger_map_[aircraft_id]},
                    !.aircraft_to_charger_map_ = MapErase(@, aircraft_id),
                    !.active_chargers_ = @ - 1]
    ELSE cm

\* Mutant: the id is put at the front of the queue.
add_to_queue_Front(cm, aircraft_id) ==
    [cm EXCEPT !.waiting_queue_ = <<aircraft_id>> \o @]

\* Mutant: the id is not queued.
add_to_queue_Drop(cm, aircraft_id) == cm

add_to_queue(cm, aircraft_id) ==
    [cm EXCEPT !.waiting_queue_ = Append(@, aircraft_id)]

\* The id get_next_from_queue returns (-1 on an empty queue) ...
get_next_from_queue_result(cm) ==
    IF cm.waiting_queue_ # << >> THEN Head(cm.waiting_queue_) ELSE -1

\* Mutant: the front of the queue is read and left in place.
get_next_from_queue_Peek(cm) == cm

\* ... and the manager it leaves.
get_next_from_queue(cm) ==
    IF cm.waiting_queue_ # << >>
    THEN [cm EXCEPT !.waiting_queue_ = Tail(@)]
    ELSE cm

assign_charger(cm, aircraft_id, charger_id) == request_charger(cm, aircraft_id, charger_id)

\* The manager held in the variables, and its replacement.
charger_mgr ==
    [waiting_queue_ |-> waiting_queue_,
     available_chargers_ |-> available_chargers_,
     aircraft_to_charger_map_ |-> aircraft_to_charger_map_,
     active_chargers_ |-> active_chargers_]

SetChargerMgr(cm) ==
    /\ waiting_queue_' = cm.waiting_queue_
    /\ available_chargers_' = cm.available_chargers_
    /\ aircraft_to_charger_map_' = cm.aircraft_to_charger_map_
    /\ active_chargers_' = cm.active_chargers_

\* ------------------------------------------------------------ event queue
\* Mutant: the comparison the other way round, a max-heap on time.
EventLess_Reversed(a, b) == a.time_hours < b.time_hours

\* Event::operator< : the priority_queue puts an event with no greater
\* event on top, that is an event of least time_hours.
EventLess(a, b) == a.time_hours > b.time_hours

\* event_queue_.top(): operator< compares times only and the order the heap
\* gives events of equal time is unspecified, so top() is any least event.
Top(q) == {e \in q : \A f \in q : ~EventLess(e, f)}

FlightCompleteData(aircraft_id, flight_time, distance, fault_occurred) ==
    [NoEvent EXCEPT !.type = "FLIGHT_COMPLETE", !.aircraft_id = aircraft_id,
                    !.flight_time = flight_time, !.distance = distance,
                    !.fault_occurred = fault_occurred]

ChargingCompleteData(aircraft_id, charge_time, waiting_time) ==
    [NoEvent EXCEPT !.type = "CHARGING_COMPLETE", !.aircraft_id = aircraft_id,
                    !.charge_time = charge_time, !.waiting_time = waiting_time]

FaultData(aircraft_id, fault_time) ==
    [NoEvent EXCEPT !.type = "FAULT_OCCURRED", !.aircraft_id = aircraft_id,
                    !.fault_time = fault_time]

\* The time schedule_event files an event under: EventDrivenSimulation moves
\* a flight or charge completion that lies beyond the horizon to the horizon.
ScheduledTime(type, time_hours) ==
    IF /\ engine = "EventDrivenSimulation"
       /\ time_hours > simulation_duration_hours_
       /\ type \in {"FLIGHT_COMPLETE", "CHARGING_COMPLETE"}
       /\ enable_partial_flights_
    THEN simulation_duration_hours_
    ELSE time_hours

\* schedule_event on es = [q: the queue, n: the insertion count].
schedule_event(es, time_hours, data) ==
    IF ScheduledTime(data.type, time_hours) <= simulation_duration_hours_
    THEN [q |-> es.q \cup {[data EXCEPT !.time_hours = ScheduledTime(data.type, time_hours),
                                         !.seq = es.n]},
          n |-> es.n + 1]
    ELSE es

\* The events schedule_flight files for an aircraft whose fault draw is
\* fault_time, at time now; the caller records flight_start_times_.
schedule_flight(es, aircraft_id, battery, now, fault_time) ==
    LET flight_time == get_flight_time_hours(fleet[aircraft_id], battery)
        distance == get_flight_distance_miles(fleet[aircraft_id], battery)
        fault_occurred == fault_time >= 0
        es1 == IF fault_occurred
               THEN schedule_event(es, now + fault_time,
                                   FaultData(aircraft_id, fault_time))
               ELSE es
    IN schedule_event(es1, now + flight_time,
                      FlightCompleteData(aircraft_id, flight_time, distance, fault_occurred))

\* Mutant: the ChargingComplete carries no waiting time.
schedule_charging_ZeroWait(es, aircraft_id, now, waiting_time) ==
    schedule_event(es, now + get_charge_time_hours(fleet[aircraft_id]),
                   ChargingCompleteData(aircraft_id, get_charge_time_hours(fleet[aircraft_id]),
                                        0))

\* The event schedule_charging files; the caller records charging_start_times_.
schedule_charging(es, aircraft_id, now, waiting_time) ==
    schedule_event(es, now + get_charge_time_hours(fleet[aircraft_id]),
                   ChargingCompleteData(aircraft_id, get_charge_time_hours(fleet[aircraft_id]),
                                        waiting_time))

SetEventQueue(es) ==
    /\ event_queue_' = es.q
    /\ next_seq' = es.n

\* ------------------------------------------------------------------ Init
\* The horizons T of the runs, in twelfths of an hour: none, the longest and
\* one halfway (at 10/12 h the horizon falls on the middle of an Alpha's or a
\* Delta's first flight, so an event can be due exactly at T).
Horizons ==
    {q * (TicksPerHour \div 12) : q \in {0, MaxHorizonTwelfths \div 2, MaxHorizonTwelfths}}

\* The fleets of n aircraft, ids 0 .. n-1.  The kernel treats ids alike, so
\* the fleets are taken up to renaming of ids: types in enum order.
TypeIndex == [ALPHA |-> 0, BETA |-> 1, CHARLIE |-> 2, DELTA |-> 3, ECHO |-> 4]

Fleets(n) ==
    {f \in [0 .. (n - 1) -> AircraftType] :
        \A i, j \in 0 .. (n - 1) : i < j => TypeIndex[f[i]] <= TypeIndex[f[j]]}

KernelInit ==
    /\ \E cfg \in Engines :
          /\ engine = cfg[1]
          /\ enable_partial_flights_ = cfg[2]
    /\ \E n \in 0 .. MaxFleet : fleet \in Fleets(n)
    /\ battery_level_ = [id \in DOMAIN fleet |-> 1]
    /\ is_faulty_ = [id \in DOMAIN fleet |-> FALSE]
    /\ event_queue_ = {}
    /\ current_time_hours_ = 0
    /\ simulation_duration_hours_ \in Horizons
    /\ waiting_start_times_ = EmptyMap
    /\ flight_start_times_ = EmptyMap
    /\ charging_start_times_ = EmptyMap
    /\ waiting_queue_ = NewChargerManager.waiting_queue_
    /\ available_chargers_ = NewChargerManager.available_chargers_
    /\ aircraft_to_charger_map_ = NewChargerManager.aircraft_to_charger_map_
    /\ active_chargers_ = NewChargerManager.active_chargers_
    /\ stats_ = [t \in AircraftType |-> ZeroStats]
    /\ pc = IF DOMAIN fleet = {} THEN "loop" ELSE "init"
    /\ init_idx = 0
    /\ next_seq = 0
    /\ last_dispatched = NoEvent
    /\ arbiter_calls = << >>
    /\ enq_log = << >>
    /\ promo_log = << >>
    /\ partial_rec = [id \in DOMAIN fleet |-> [flights |-> 0, charges |-> 0]]
    /\ loop_broke = FALSE
    /\ first_stats = [t \in AircraftType |-> ZeroStats]
    /\ step_log = << >>
    /\ step_idx = 1
    /\ aircraft_frame_data_ = EmptyMap

\* One run of the kernel.
Init ==
    /\ KernelInit
    /\ run_no = 0

\* Mutant: the event top() yielded is not part of what a second run repeats.
StepChoices_AnyTop ==
    [popped |-> {},
     granted |-> aircraft_to_charger_map_',
     drawn |-> {<<e.aircraft_id, e.type, e.fault_occurred, e.fault_time>> :
                   e \in event_queue_' \ event_queue_}]

\* What a step takes from outside the kernel: the event top() yielded, the
\* charger begin() yielded (seen in the map) and the fault draw of the flight
\* it scheduled (seen in the events it filed).
StepChoices ==
    [popped |-> {e.seq : e \in event_queue_ \ event_queue_'},
     granted |-> aircraft_to_charger_map_',
     drawn |-> {<<e.aircraft_id, e.type, e.fault_occurred, e.fault_time>> :
                   e \in event_queue_' \ event_queue_}]

\* Of two runs, the first logs what each step took and the second takes the
\* same; a single run keeps no log.
Replay ==
    /\ CASE run_no = 0 -> UNCHANGED <<step_log, step_idx>>
         [] run_no = 1 ->
            /\ step_log' = Append(step_log, StepChoices)
            /\ step_idx' = step_idx
         [] OTHER ->
            /\ step_idx \in DOMAIN step_log
            /\ StepChoices = step_log[step_idx]
            /\ step_idx' = step_idx + 1
            /\ step_log' = step_log
    /\ UNCHANGED <<run_no, first_stats>>

configVars == <<engine, enable_partial_flights_, fleet, simulation_duration_hours_>>

\* ----------------------------------------------- schedule_initial_flights
\* One iteration of the loop over the fleet: schedule_flight(aircraft).
ScheduleInitialFlight ==
    /\ pc = "init"
    /\ init_idx \in DOMAIN fleet
    /\ \E fault_time \in check_fault_during_flight(
                            get_flight_time_hours(fleet[init_idx], battery_level_[init_idx])) :
          SetEventQueue(schedule_flight([q |-> event_queue_, n |-> next_seq], init_idx,
                                        battery_level_[init_idx], current_time_hours_,
                                        fault_time))
    /\ flight_start_times_' = MapPut(flight_start_times_, init_idx, current_time_hours_)
    /\ init_idx' = init_idx + 1
    /\ pc' = IF init_idx + 1 \in DOMAIN fleet THEN "init" ELSE "loop"
    /\ UNCHANGED <<configVars, battery_level_, is_faulty_, current_time_hours_,
                   waiting_start_times_, charging_start_times_, chargerVars, stats_,
                   last_dispatched, arbiter_calls, enq_log, promo_log, partial_rec,
                   loop_broke, frameVars>>
    /\ Replay

\* ------------------------------------------------------------- main loop
LoopGuard ==
    /\ event_queue_ # {}
    /\ current_time_hours_ < simulation_duration_hours_

\* Mutant: the flight-complete handler does not consult the fault flag.
ChargeAfterFlight_NoCheck(aircraft_id) == TRUE

\* handle_flight_complete charges the aircraft only if it is not faulty.
ChargeAfterFlight(aircraft_id) == ~is_faulty_[aircraft_id]

\* handle_charging_complete starts the next flight before the horizon and
\* only for an aircraft that is not faulty.
FlyAfterCharge(aircraft_id, now) ==
    /\ now < simulation_duration_hours_
    /\ ~is_faulty_[aircraft_id]

handle_flight_complete(data, now) ==
    LET id == data.aircraft_id
        es0 == [q |-> event_queue_ \ {data}, n |-> next_seq]
    IN
    /\ battery_level_' = [battery_level_ EXCEPT ![id] = 0]
    /\ stats_' = record_flight(stats_, fleet[id], data.flight_time, data.distance,
                               get_passenger_count(fleet[id]))
    /\ flight_start_times_' = MapErase(flight_start_times_, id)
    /\ IF ChargeAfterFlight(id)
       THEN IF request_charger_ok(charger_mgr)
            THEN /\ \E c \in BeginOf(available_chargers_) :
                       SetChargerMgr(request_charger(charger_mgr, id, c))
                 /\ charging_start_times_' = MapPut(charging_start_times_, id, now)
                 /\ SetEventQueue(schedule_charging(es0, id, now, 0))
                 /\ arbiter_calls' = <<[op |-> "request_charger", id |-> id, ok |-> TRUE]>>
                 /\ UNCHANGED <<waiting_start_times_, enq_log>>
            ELSE /\ SetChargerMgr(add_to_queue(charger_mgr, id))
                 /\ waiting_start_times_' = MapPut(waiting_start_times_, id, now)
                 /\ SetEventQueue(es0)
                 /\ arbiter_calls' = <<[op |-> "request_charger", id |-> id, ok |-> FALSE],
                                        [op |-> "add_to_queue", id |-> id, ok |-> TRUE]>>
                 /\ enq_log' = Append(enq_log, [id |-> id, t |-> now])
                 /\ UNCHANGED charging_start_times_
       ELSE /\ SetEventQueue(es0)
            /\ arbiter_calls' = << >>
            /\ UNCHANGED <<chargerVars, waiting_start_times_, charging_start_times_,
                           enq_log>>
    /\ UNCHANGED <<is_faulty_, promo_log>>

handle_charging_complete(data, now) ==
    LET id == data.aircraft_id
        es0 == [q |-> event_queue_ \ {data}, n |-> next_seq]
        fly == FlyAfterCharge(id, now)
        started == MapErase(charging_start_times_, id)
        next_aircraft_id == get_next_from_queue_result(charger_mgr)
        cm1 == get_next_from_queue(charger_mgr)
    IN
    /\ battery_level_' = [battery_level_ EXCEPT ![id] = 1]
    /\ stats_' = record_charge_session(stats_, fleet[id], data.charge_time,
                                       data.waiting_time)
    /\ flight_start_times_' = IF fly THEN MapPut(flight_start_times_, id, now)
                                     ELSE flight_start_times_
    /\ \E fault_time \in (IF fly
                          THEN check_fault_during_flight(get_flight_time_hours(fleet[id], 1))
                          ELSE {-1}) :
          LET es1 == IF fly THEN schedule_flight(es0, id, 1, now, fault_time) ELSE es0
          IN IF next_aircraft_id # -1 /\ next_aircraft_id \in DOMAIN fleet
             THEN LET waiting_time ==
                          IF next_aircraft_id \in DOMAIN waiting_start_times_
                          THEN now - waiting_start_times_[next_aircraft_id]
                          ELSE 0
                  IN /\ \E c \in BeginOf(cm1.available_chargers_) :
                            SetChargerMgr(assign_charger(cm1, next_aircraft_id, c))
                     /\ waiting_start_times_' = MapErase(waiting_start_times_,
                                                         next_aircraft_id)
                     /\ charging_start_times_' = MapPut(started, next_aircraft_id, now)
                     /\ SetEventQueue(schedule_charging(es1, next_aircraft_id, now,
                                                        waiting_time))
                     /\ arbiter_calls' =
                            <<[op |-> "get_next_from_queue", id |-> next_aircraft_id,
                               ok |-> TRUE],
                              [op |-> "assign_charger", id |-> next_aircraft_id,
                               ok |-> request_charger_ok(cm1)]>>
                     /\ promo_log' = Append(promo_log, [id |-> next_aircraft_id, t |-> now])
             ELSE /\ SetChargerMgr(cm1)
                  /\ charging_start_times_' = started
                  /\ SetEventQueue(es1)
                  /\ arbiter_calls' = <<[op |-> "get_next_from_queue",
                                         id |-> next_aircraft_id, ok |-> FALSE]>>
                  /\ UNCHANGED <<waiting_start_times_, promo_log>>
    /\ UNCHANGED <<is_faulty_, enq_log>>

\* Mutant: the fault event stays in the queue and is handled again.
handle_fault_Again(data) ==
    /\ is_faulty_' = [is_faulty_ EXCEPT ![data.aircraft_id] = TRUE]
    /\ stats_' = record_fault(stats_, fleet[data.aircraft_id])
    /\ event_queue_' = event_queue_
    /\ arbiter_calls' = << >>
    /\ UNCHANGED <<battery_level_, waiting_start_times_, flight_start_times_,
                   charging_start_times_, chargerVars, next_seq, enq_log, promo_log>>

handle_fault(data) ==
    /\ is_faulty_' = [is_faulty_ EXCEPT ![data.aircraft_id] = TRUE]
    /\ stats_' = record_fault(stats_, fleet[data.aircraft_id])
    /\ event_queue_' = event_queue_ \ {data}
    /\ arbiter_calls' = << >>
    /\ UNCHANGED <<battery_level_, waiting_start_times_, flight_start_times_,
                   charging_start_times_, chargerVars, next_seq, enq_log, promo_log>>

\* Mutant: the loop body has no break at the horizon.
Popped_NoBreak(event, type) ==
    /\ pc = "loop"
    /\ LoopGuard
    /\ event.type = type

\* One iteration of the while loop of run_simulation that reaches
\* process_event pops a top event that lies before the horizon, advances the
\* clock to it and dispatches on its type.
Popped(event, type) ==
    /\ pc = "loop"
    /\ LoopGuard
    /\ event.type = type
    /\ ~(event.time_hours >= simulation_duration_hours_)

DispatchFlightComplete ==
    /\ \E event \in Top(event_queue_) :
          /\ Popped(event, "FLIGHT_COMPLETE")
          /\ current_time_hours_' = event.time_hours
          /\ last_dispatched' = event
          /\ handle_flight_complete(event, event.time_hours)
    /\ UNCHANGED <<configVars, pc, init_idx, partial_rec, loop_broke, frameVars>>
    /\ Replay

DispatchChargingComplete ==
    /\ \E event \in Top(event_queue_) :
          /\ Popped(event, "CHARGING_COMPLETE")
          /\ current_time_hours_' = event.time_hours
          /\ last_dispatched' = event
          /\ handle_charging_complete(event, event.time_hours)
    /\ UNCHANGED <<configVars, pc, init_idx, partial_rec, loop_broke, frameVars>>
    /\ Replay

DispatchFault ==
    /\ \E event \in Top(event_queue_) :
          /\ Popped(event, "FAULT_OCCURRED")
          /\ current_time_hours_' = event.time_hours
          /\ last_dispatched' = event
          /\ handle_fault(event)
    /\ UNCHANGED <<configVars, pc, init_idx, partial_rec, loop_broke, frameVars>>
    /\ Replay

\* The iteration that pops an event at or after the horizon: the clock takes
\* the event's time and the loop breaks; the popped event is gone.
HorizonBreak ==
    /\ pc = "loop"
    /\ LoopGuard
    /\ \E event \in Top(event_queue_) :
          /\ event.time_hours >= simulation_duration_hours_
          /\ event_queue_' = event_queue_ \ {event}
          /\ current_time_hours_' = event.time_hours
    /\ pc' = "finalize"
    /\ loop_broke' = TRUE
    /\ UNCHANGED <<configVars, battery_level_, is_faulty_, waiting_start_times_,
                   flight_start_times_, charging_start_times_, chargerVars, stats_,
                   init_idx, next_seq, last_dispatched, arbiter_calls, enq_log,
                   promo_log, partial_rec, frameVars>>
    /\ Replay

\* The while condition fails.
LoopExit ==
    /\ pc = "loop"
    /\ ~LoopGuard
    /\ pc' = "finalize"
    /\ UNCHANGED <<kernelVars, chargerVars, stats_, init_idx, historyVars, replayVars, frameVars>>

\* --------------------------------------------------- finalize_simulation
FinalizeStart ==
    /\ pc = "finalize"
    /\ current_time_hours_' = simulation_duration_hours_
    /\ pc' = "drain"
    /\ UNCHANGED <<configVars, battery_level_, is_faulty_, event_queue_,
                   waiting_start_times_, flight_start_times_, charging_start_times_,
                   chargerVars, stats_, init_idx, historyVars, replayVars, frameVars>>

\* Mutant: the truncated flight is recorded with its full duration and distance.
handle_partial_flight_Full(data) ==
    LET id == data.aircraft_id
    IN IF id \in DOMAIN flight_start_times_
       THEN /\ stats_' = record_partial_flight(stats_, fleet[id], data.flight_time,
                                               data.distance,
                                               get_passenger_count(fleet[id]))
            /\ partial_rec' = [partial_rec EXCEPT ![id].flights = @ + 1]
       ELSE UNCHANGED <<stats_, partial_rec>>

\* distance is flight_time * cruise speed, so the quotient is exact.
handle_partial_flight(data) ==
    LET id == data.aircraft_id
        partial_flight_time == simulation_duration_hours_ - flight_start_times_[id]
        partial_distance == partial_flight_time * (data.distance \div data.flight_time)
    IN IF id \in DOMAIN flight_start_times_
       THEN /\ stats_' = record_partial_flight(stats_, fleet[id], partial_flight_time,
                                               partial_distance,
                                               get_passenger_count(fleet[id]))
            /\ partial_rec' = [partial_rec EXCEPT ![id].flights = @ + 1]
       ELSE UNCHANGED <<stats_, partial_rec>>

handle_partial_charge(data) ==
    LET id == data.aircraft_id
        partial_charge_time == simulation_duration_hours_ - charging_start_times_[id]
    IN IF id \in DOMAIN charging_start_times_
       THEN /\ stats_' = record_partial_charge(stats_, fleet[id], partial_charge_time)
            /\ partial_rec' = [partial_rec EXCEPT ![id].charges = @ + 1]
       ELSE UNCHANGED <<stats_, partial_rec>>

\* One iteration of the drain loop of finalize_simulation pops a top event
\* and visits it: partial flight, partial charge, or nothing for a fault.
drainFrame == <<configVars, battery_level_, is_faulty_, current_time_hours_,
                waiting_start_times_, flight_start_times_, charging_start_times_,
                chargerVars, pc, init_idx, next_seq, last_dispatched, arbiter_calls,
                enq_log, promo_log, loop_broke>>

DrainPartialFlight ==
    /\ pc = "drain"
    /\ \E event \in Top(event_queue_) :
          /\ event.type = "FLIGHT_COMPLETE"
          /\ event_queue_' = event_queue_ \ {event}
          /\ handle_partial_flight(event)
    /\ UNCHANGED <<drainFrame, replayVars, frameVars>>

DrainPartialCharge ==
    /\ pc = "drain"
    /\ \E event \in Top(event_queue_) :
          /\ event.type = "CHARGING_COMPLETE"
          /\ event_queue_' = event_queue_ \ {event}
          /\ handle_partial_charge(event)
    /\ UNCHANGED <<drainFrame, replayVars, frameVars>>

\* Mutant: a fault left in the queue at the horizon is applied by the drain.
DrainFault_Applied ==
    /\ pc = "drain"
    /\ \E event \in Top(event_queue_) :
          /\ event.type = "FAULT_OCCURRED"
          /\ event_queue_' = event_queue_ \ {event}
          /\ is_faulty_' = [is_faulty_ EXCEPT ![event.aircraft_id] = TRUE]
          /\ stats_' = record_fault(stats_, fleet[event.aircraft_id])
    /\ UNCHANGED <<configVars, battery_level_, current_time_hours_,
                   waiting_start_times_, flight_start_times_, charging_start_times_,
                   chargerVars, pc, init_idx, next_seq, last_dispatched, arbiter_calls,
                   enq_log, promo_log, loop_broke, partial_rec, replayVars, frameVars>>

\* Mutant: the drain loop visits a fault it finds on top without popping it.
DrainFault_NoPop ==
    /\ pc = "drain"
    /\ \E event \in Top(event_queue_) : event.type = "FAULT_OCCURRED"
    /\ UNCHANGED vars

DrainFault ==
    /\ pc = "drain"
    /\ \E event \in Top(event_queue_) :
          /\ event.type = "FAULT_OCCURRED"
          /\ event_queue_' = event_queue_ \ {event}
          /\ UNCHANGED <<stats_, partial_rec>>
    /\ UNCHANGED <<drainFrame, replayVars, frameVars>>

\* finalize_simulation returns: the run is over.
Finish ==
    /\ pc = "drain"
    /\ event_queue_ = {}
    /\ pc' = "done"
    /\ UNCHANGED <<kernelVars, chargerVars, stats_, init_idx, historyVars, replayVars, frameVars>>

Next ==
    \/ ScheduleInitialFlight
    \/ DispatchFlightComplete
    \/ DispatchChargingComplete
    \/ DispatchFault
    \/ HorizonBreak
    \/ LoopExit
    \/ FinalizeStart
    \/ DrainPartialFlight
    \/ DrainPartialCharge
    \/ DrainFault
    \/ Finish

Spec == Init /\ [][Next]_vars

\* The runs of fleets below MaxFleet.
LiveInit ==
    /\ Init
    /\ Cardinality(DOMAIN fleet) < MaxFleet

\* run_simulation is one sequential call: while a step is possible, the
\* program takes one.
LiveSpec == LiveInit /\ [][Next]_vars /\ WF_vars(Next)

\* ------------------------------------------------- two runs of one input
\* The kernel run twice on the same fleet and horizon, each time with fresh
\* collector and charger manager; the second run gets the fault draws of the
\* first and, being the same build, the same answers from top() and begin().
\* The first run's log tells every path apart, so the fleets are kept to half
\* of MaxFleet, rounded up.
DetInit ==
    /\ KernelInit
    /\ run_no = 1
    /\ Cardinality(DOMAIN fleet) <= (MaxFleet + 1) \div 2

Restart ==
    /\ pc = "done"
    /\ run_no = 1
    /\ run_no' = 2
    /\ first_stats' = stats_
    /\ step_idx' = 1
    /\ battery_level_' = [id \in DOMAIN fleet |-> 1]
    /\ is_faulty_' = [id \in DOMAIN fleet |-> FALSE]
    /\ event_queue_' = {}
    /\ current_time_hours_' = 0
    /\ waiting_start_times_' = EmptyMap
    /\ flight_start_times_' = EmptyMap
    /\ charging_start_times_' = EmptyMap
    /\ SetChargerMgr(NewChargerManager)
    /\ stats_' = [t \in AircraftType |-> ZeroStats]
    /\ pc' = IF DOMAIN fleet = {} THEN "loop" ELSE "init"
    /\ init_idx' = 0
    /\ next_seq' = 0
    /\ last_dispatched' = NoEvent
    /\ arbiter_calls' = << >>
    /\ enq_log' = << >>
    /\ promo_log' = << >>
    /\ partial_rec' = [id \in DOMAIN fleet |-> [flights |-> 0, charges |-> 0]]
    /\ loop_broke' = FALSE
    /\ UNCHANGED <<configVars, step_log, frameVars>>

DetNext ==
    \/ ScheduleInitialFlight
    \/ DispatchFlightComplete
    \/ DispatchChargingComplete
    \/ DispatchFault
    \/ HorizonBreak
    \/ LoopExit
    \/ FinalizeStart
    \/ DrainPartialFlight
    \/ DrainPartialCharge
    \/ DrainFault
    \/ Finish
    \/ Restart

DetSpec == DetInit /\ [][DetNext]_vars

\* --------------------------------------- the StatisticsCollector on its own
\* The record operations applied in any order to a fresh collector, with
\* arguments 0 .. MaxStatArg, MaxRecords operations at most.
StatArgs == 0 .. MaxStatArg

RecordsOf(s) == s.flight_count + s.charge_count + s.total_faults

RecordsMade ==
    RecordsOf(stats_["ALPHA"]) + RecordsOf(stats_["BETA"]) + RecordsOf(stats_["CHARLIE"])
        + RecordsOf(stats_["DELTA"]) + RecordsOf(stats_["ECHO"])

statsFrame == <<kernelVars, chargerVars, pc, init_idx, historyVars, replayVars, frameVars>>

StatsInit ==
    /\ engine = "SimulationEngine"
    /\ enable_partial_flights_ = FALSE
    /\ fleet \in Fleets(0)
    /\ battery_level_ = EmptyMap
    /\ is_faulty_ = EmptyMap
    /\ event_queue_ = {}
    /\ current_time_hours_ = 0
    /\ simulation_duration_hours_ = 0
    /\ waiting_start_times_ = EmptyMap
    /\ flight_start_times_ = EmptyMap
    /\ charging_start_times_ = EmptyMap
    /\ waiting_queue_ = NewChargerManager.waiting_queue_
    /\ available_chargers_ = NewChargerManager.available_chargers_
    /\ aircraft_to_charger_map_ = NewChargerManager.aircraft_to_charger_map_
    /\ active_chargers_ = NewChargerManager.active_chargers_
    /\ stats_ = [t \in AircraftType |-> ZeroStats]
    /\ pc = "stats"
    /\ init_idx = 0
    /\ next_seq = 0
    /\ last_dispatched = NoEvent
    /\ arbiter_calls = << >>
    /\ enq_log = << >>
    /\ promo_log = << >>
    /\ partial_rec = EmptyMap
    /\ loop_broke = FALSE
    /\ run_no = 0
    /\ first_stats = [t \in AircraftType |-> ZeroStats]
    /\ step_log = << >>
    /\ step_idx = 1
    /\ aircraft_frame_data_ = EmptyMap

RecordFlight ==
    /\ RecordsMade < MaxRecords
    /\ \E type \in AircraftType, flight_time \in StatArgs, distance \in StatArgs :
          stats_' = record_flight(stats_, type, flight_time, distance,
                                  get_passenger_count(type))
    /\ UNCHANGED statsFrame

RecordChargeSession ==
    /\ RecordsMade < MaxRecords
    /\ \E type \in AircraftType, charge_time \in StatArgs, waiting_time \in StatArgs :
          stats_' = record_charge_session(stats_, type, charge_time, waiting_time)
    /\ UNCHANGED statsFrame

RecordFault ==
    /\ RecordsMade < MaxRecords
    /\ \E type \in AircraftType : stats_' = record_fault(stats_, type)
    /\ UNCHANGED statsFrame

RecordPartialFlight ==
    /\ RecordsMade < MaxRecords
    /\ \E type \in AircraftType, flight_time \in StatArgs, distance \in StatArgs :
          stats_' = record_partial_flight(stats_, type, flight_time, distance,
                                          get_passenger_count(type))
    /\ UNCHANGED statsFrame

RecordPartialCharge ==
    /\ RecordsMade < MaxRecords
    /\ \E type \in AircraftType, charge_time \in StatArgs :
          stats_' = record_partial_charge(stats_, type, charge_time)
    /\ UNCHANGED statsFrame

StatsNext ==
    \/ RecordFlight
    \/ RecordChargeSession
    \/ RecordFault
    \/ RecordPartialFlight
    \/ RecordPartialCharge

StatsSpec == StatsInit /\ [][StatsNext]_vars

\* ------------------------------------------- the ChargerManager on its own
\* The public operations called in any order on a fresh manager, for aircraft
\* ids 0 .. MaxFleet - 1, with at most MaxQueue ids in the waiting queue.
\* arbiter_calls holds the last call: its operation, its argument (for
\* get_next_from_queue the id returned) and what it returned (for
\* release_charger, which returns nothing, whether the id held a slot).
AircraftIds == 0 .. (MaxFleet - 1)

arbiterFrame == <<kernelVars, stats_, pc, init_idx, next_seq, last_dispatched, enq_log,
                  promo_log, partial_rec, loop_broke, replayVars, frameVars>>

ArbiterInit ==
    /\ engine = "SimulationEngine"
    /\ enable_partial_flights_ = FALSE
    /\ fleet \in Fleets(0)
    /\ battery_level_ = EmptyMap
    /\ is_faulty_ = EmptyMap
    /\ event_queue_ = {}
    /\ current_time_hours_ = 0
    /\ simulation_duration_hours_ = 0
    /\ waiting_start_times_ = EmptyMap
    /\ flight_start_times_ = EmptyMap
    /\ charging_start_times_ = EmptyMap
    /\ waiting_queue_ = NewChargerManager.waiting_queue_
    /\ available_chargers_ = NewChargerManager.available_chargers_
    /\ aircraft_to_charger_map_ = NewChargerManager.aircraft_to_charger_map_
    /\ active_chargers_ = NewChargerManager.active_chargers_
    /\ stats_ = [t \in AircraftType |-> ZeroStats]
    /\ pc = "arbiter"
    /\ init_idx = 0
    /\ next_seq = 0
    /\ last_dispatched = NoEvent
    /\ arbiter_calls = << >>
    /\ enq_log = << >>
    /\ promo_log = << >>
    /\ partial_rec = EmptyMap
    /\ loop_broke = FALSE
    /\ run_no = 0
    /\ first_stats = [t \in AircraftType |-> ZeroStats]
    /\ step_log = << >>
    /\ step_idx = 1
    /\ aircraft_frame_data_ = EmptyMap

RequestCharger ==
    /\ \E aircraft_id \in AircraftIds, c \in BeginOf(available_chargers_) :
          /\ SetChargerMgr(request_charger(charger_mgr, aircraft_id, c))
          /\ arbiter_calls' = <<[op |-> "request_charger", id |-> aircraft_id,
                                 ok |-> request_charger_ok(charger_mgr)]>>
    /\ UNCHANGED arbiterFrame

AssignCharger ==
    /\ \E aircraft_id \in AircraftIds, c \in BeginOf(available_chargers_) :
          /\ SetChargerMgr(assign_charger(charger_mgr, aircraft_id, c))
          /\ arbiter_calls' = <<[op |-> "assign_charger", id |-> aircraft_id,
                                 ok |-> request_charger_ok(charger_mgr)]>>
    /\ UNCHANGED arbiterFrame

ReleaseCharger ==
    /\ \E aircraft_id \in AircraftIds :
          /\ SetChargerMgr(release_charger(charger_mgr, aircraft_id))
          /\ arbiter_calls' = <<[op |-> "release_charger", id |-> aircraft_id,
                                 ok |-> aircraft_id \in DOMAIN aircraft_to_charger_map_]>>
    /\ UNCHANGED arbiterFrame

AddToQueue ==
    /\ Len(waiting_queue_) < MaxQueue
    /\ \E aircraft_id \in AircraftIds :
          /\ SetChargerMgr(add_to_queue(charger_mgr, aircraft_id))
          /\ arbiter_calls' = <<[op |-> "add_to_queue", id |-> aircraft_id, ok |-> TRUE]>>
    /\ UNCHANGED arbiterFrame

GetNextFromQueue ==
    /\ SetChargerMgr(get_next_from_queue(charger_mgr))
    /\ arbiter_calls' = <<[op |-> "get_next_from_queue",
                           id |-> get_next_from_queue_result(charger_mgr),
                           ok |-> get_next_from_queue_result(charger_mgr) # -1]>>
    /\ UNCHANGED arbiterFrame

ArbiterNext ==
    \/ RequestCharger
    \/ AssignCharger
    \/ ReleaseCharger
    \/ AddToQueue
    \/ GetNextFromQueue

ArbiterSpec == ArbiterInit /\ [][ArbiterNext]_vars

\* ------------------------------------------- FrameBasedSimulationEngine
\* The frame time of SimulationConfig, 60 seconds; times of the frame data
\* that the code keeps in seconds are counted in ticks like the hours.
frame_time_seconds_ == TicksPerHour \div 60

AircraftState == {"IDLE", "FLYING", "CHARGING", "WAITING_FOR_CHARGER", "FAULT"}

\* A default-constructed AircraftFrameData.
NewFrameData ==
    [state |-> "IDLE", time_remaining |-> 0, current_flight_time |-> 0,
     current_flight_distance |-> 0, fault_occurred |-> FALSE, charger_id |-> -1,
     waiting_start_time |-> 0, accumulated_waiting_time |-> 0]

\* Mutant: an aircraft may leave the fault state for a new flight.
is_valid_transition_FaultRecovers(from_state, to_state) ==
    CASE from_state = "IDLE" -> to_state = "FLYING"
      [] from_state = "FLYING" -> to_state \in {"CHARGING", "WAITING_FOR_CHARGER", "FAULT"}
      [] from_state = "CHARGING" -> to_state \in {"IDLE", "FAULT"}
      [] from_state = "WAITING_FOR_CHARGER" -> to_state \in {"CHARGING", "FAULT"}
      [] from_state = "FAULT" -> to_state = "FLYING"
      [] OTHER -> FALSE

is_valid_transition(from_state, to_state) ==
    CASE from_state = "IDLE" -> to_state = "FLYING"
      [] from_state = "FLYING" -> to_state \in {"CHARGING", "WAITING_FOR_CHARGER", "FAULT"}
      [] from_state = "CHARGING" -> to_state \in {"IDLE", "FAULT"}
      [] from_state = "WAITING_FOR_CHARGER" -> to_state \in {"CHARGING", "FAULT"}
      [] from_state = "FAULT" -> FALSE
      [] OTHER -> FALSE

\* transition_to: what it returns and the frame data it leaves.
transition_to(fd, new_state) ==
    IF ~is_valid_transition(fd.state, new_state)
    THEN [ok |-> FALSE, fd |-> fd]
    ELSE [ok |-> TRUE, fd |-> [fd EXCEPT !.state = new_state]]

update_time_remaining(fd, delta_time) ==
    [fd EXCEPT !.time_remaining = IF @ - delta_time > 0 THEN @ - delta_time ELSE 0]

\* reset_for_activity stores the new state without consulting the table.
reset_for_activity(fd, new_state, duration) ==
    LET fd1 == [fd EXCEPT !.state = new_state,
                          !.time_remaining = duration,
                          !.fault_occurred = FALSE]
    IN IF new_state = "FLYING"
       THEN [fd1 EXCEPT !.current_flight_time = duration,
                        !.current_flight_distance = 0]
       ELSE fd1

get_charger_id(cm, aircraft_id) ==
    IF aircraft_id \in DOMAIN cm.aircraft_to_charger_map_
    THEN cm.aircraft_to_charger_map_[aircraft_id]
    ELSE -1

\* What the handlers of the frame engine work on: the frame data, the charger
\* manager, the collector and the batteries.
frame_world ==
    [fd |-> aircraft_frame_data_, cm |-> charger_mgr, st |-> stats_, bat |-> battery_level_]

SetFrameWorld(w) ==
    /\ aircraft_frame_data_' = w.fd
    /\ SetChargerMgr(w.cm)
    /\ stats_' = w.st
    /\ battery_level_' = w.bat

\* will_fault of start_new_flight: check_fault_during_flight(...) > 0.
WillFault(type, battery) ==
    {fault_time > 0 : fault_time \in check_fault_during_flight(
                                        get_flight_time_hours(type, battery))}

start_new_flight(w, idx, will_fault) ==
    LET flight_time == get_flight_time_hours(fleet[idx], w.bat[idx])
        flight_distance == get_flight_distance_miles(fleet[idx], w.bat[idx])
        fd1 == [w.fd[idx] EXCEPT !.current_flight_time = flight_time,
                                 !.current_flight_distance = flight_distance]
    IN IF w.fd[idx].state # "IDLE"
       THEN w
       ELSE [w EXCEPT !.fd[idx] =
                [reset_for_activity(fd1, "FLYING", flight_time)
                    EXCEPT !.fault_occurred = will_fault]]

start_charging(w, idx) ==
    [w EXCEPT !.fd[idx] =
        reset_for_activity([@ EXCEPT !.charger_id = get_charger_id(w.cm, idx)],
                           "CHARGING", get_charge_time_hours(fleet[idx]))]

\* The worlds handle_flight_completion can leave, one for each charger
\* begin() may yield.
handle_flight_completion(w, idx, now) ==
    LET fd == w.fd[idx]
        w1 == [w EXCEPT !.bat[idx] = 0,
                        !.st = record_flight(@, fleet[idx], fd.current_flight_time,
                                             fd.current_flight_distance,
                                             get_passenger_count(fleet[idx]))]
    IN IF fd.fault_occurred
       THEN {[w1 EXCEPT !.st = record_fault(@, fleet[idx]),
                        !.fd[idx] = transition_to(@, "FAULT").fd]}
       ELSE IF request_charger_ok(w1.cm)
            THEN {start_charging([w1 EXCEPT !.cm = request_charger(@, idx, c)], idx) :
                     c \in BeginOf(w1.cm.available_chargers_)}
            ELSE {[w1 EXCEPT !.cm = add_to_queue(@, idx),
                             !.fd[idx] =
                                 transition_to([@ EXCEPT !.waiting_start_time = now,
                                                         !.accumulated_waiting_time = 0],
                                               "WAITING_FOR_CHARGER").fd]}

handle_charging_completion(w, idx, now) ==
    LET fd == w.fd[idx]
        w1 == [w EXCEPT !.bat[idx] = 1,
                        !.st = record_charge_session(@, fleet[idx],
                                                     get_charge_time_hours(fleet[idx]),
                                                     fd.accumulated_waiting_time),
                        !.cm = release_charger(@, idx),
                        !.fd[idx].charger_id = -1]
        next_aircraft_id == get_next_from_queue_result(w1.cm)
        w2 == [w1 EXCEPT !.cm = get_next_from_queue(@)]
        promoted ==
            IF next_aircraft_id # -1 /\ next_aircraft_id \in DOMAIN fleet
            THEN {start_charging(
                      [w2 EXCEPT !.cm = assign_charger(@, next_aircraft_id, c),
                                 !.fd[next_aircraft_id].accumulated_waiting_time =
                                     now - w2.fd[next_aircraft_id].waiting_start_time],
                      next_aircraft_id) :
                     c \in BeginOf(w2.cm.available_chargers_)}
            ELSE {w2}
    IN {[w3 EXCEPT !.fd[idx] = transition_to(@, "IDLE").fd] : w3 \in promoted}

\* process_aircraft_state: AircraftStateMachine::update_frame takes the frame
\* time off time_remaining, and the FLYING and CHARGING cases take it off
\* once more before they look at what is left.
process_aircraft_state(w, idx, now, will_fault) ==
    LET w1 == [w EXCEPT !.fd[idx] = update_time_remaining(@, frame_time_seconds_)]
        w2 == [w1 EXCEPT !.fd[idx] = update_time_remaining(@, frame_time_seconds_)]
        state == w1.fd[idx].state
    IN CASE state = "FLYING" ->
              IF w2.fd[idx].time_remaining <= 0
              THEN handle_flight_completion(w2, idx, now)
              ELSE {w2}
         [] state = "CHARGING" ->
              IF w2.fd[idx].time_remaining <= 0
              THEN handle_charging_completion(w2, idx, now)
              ELSE {w2}
         [] state = "WAITING_FOR_CHARGER" ->
              IF request_charger_ok(w1.cm)
              THEN {start_charging(
                        [w1 EXCEPT !.cm = request_charger(@, idx, c),
                                   !.fd[idx].accumulated_waiting_time =
                                       now - w1.fd[idx].waiting_start_time],
                        idx) :
                       c \in BeginOf(w1.cm.available_chargers_)}
              ELSE {w1}
         [] state = "IDLE" -> {start_new_flight(w1, idx, will_fault)}
         [] OTHER -> {w1}

handle_partial_flight_frame(w, idx) ==
    LET fd == w.fd[idx]
        completed_flight_time == fd.current_flight_time - fd.time_remaining
        partial_distance ==
            (completed_flight_time * fd.current_flight_distance) \div fd.current_flight_time
    IN [w EXCEPT !.st = record_partial_flight(@, fleet[idx], completed_flight_time,
                                              partial_distance,
                                              get_passenger_count(fleet[idx]))]

handle_partial_charging(w, idx) ==
    LET completed_charge_time ==
            get_charge_time_hours(fleet[idx]) - w.fd[idx].time_remaining
    IN [w EXCEPT !.st = record_partial_charge(@, fleet[idx], completed_charge_time)]

\* What no step of the frame engine touches.
frameFrame == <<configVars, is_faulty_, event_queue_, waiting_start_times_,
                flight_start_times_, charging_start_times_, historyVars, replayVars>>

\* The runs of the frame engine: the constructor rejects a horizon that is
\* not positive.  The fleets are the mixed ones up to half of MaxFleet,
\* rounded up, and, for contention (NUM_CHARGERS chargers are taken by no
\* fewer than NUM_CHARGERS + 1 aircraft), those of MaxFleet + 1 of one type.
FrameFleets ==
    UNION {Fleets(n) : n \in 0 .. ((MaxFleet + 1) \div 2)}
        \cup {[id \in 0 .. MaxFleet |-> t] : t \in AircraftType}

FrameInit ==
    /\ engine = "FrameBasedSimulationEngine"
    /\ enable_partial_flights_ \in BOOLEAN
    /\ fleet \in FrameFleets
    /\ battery_level_ = [id \in DOMAIN fleet |-> 1]
    /\ is_faulty_ = [id \in DOMAIN fleet |-> FALSE]
    /\ event_queue_ = {}
    /\ current_time_hours_ = 0
    /\ simulation_duration_hours_ \in {T \in Horizons : T > 0}
    /\ waiting_start_times_ = EmptyMap
    /\ flight_start_times_ = EmptyMap
    /\ charging_start_times_ = EmptyMap
    /\ waiting_queue_ = NewChargerManager.waiting_queue_
    /\ available_chargers_ = NewChargerManager.available_chargers_
    /\ aircraft_to_charger_map_ = NewChargerManager.aircraft_to_charger_map_
    /\ active_chargers_ = NewChargerManager.active_chargers_
    /\ stats_ = [t \in AircraftType |-> ZeroStats]
    /\ pc = IF DOMAIN fleet = {} THEN "frame" ELSE "frame_init"
    /\ init_idx = 0
    /\ next_seq = 0
    /\ last_dispatched = NoEvent
    /\ arbiter_calls = << >>
    /\ enq_log = << >>
    /\ promo_log = << >>
    /\ partial_rec = [id \in DOMAIN fleet |-> [flights |-> 0, charges |-> 0]]
    /\ loop_broke = FALSE
    /\ run_no = 0
    /\ first_stats = [t \in AircraftType |-> ZeroStats]
    /\ step_log = << >>
    /\ step_idx = 1
    /\ aircraft_frame_data_ = EmptyMap

\* One iteration of the loop of initialize_aircraft_states, the first one
\* after the resize of aircraft_frame_data_.
InitializeAircraftState ==
    /\ pc = "frame_init"
    /\ init_idx \in DOMAIN fleet
    /\ LET resized == IF init_idx = 0
                      THEN [id \in DOMAIN fleet |-> NewFrameData]
                      ELSE aircraft_frame_data_
           w == [frame_world EXCEPT
                    !.fd = [resized EXCEPT ![init_idx] = reset_for_activity(@, "IDLE", 0)]]
       IN \E will_fault \in WillFault(fleet[init_idx], battery_level_[init_idx]) :
             SetFrameWorld(start_new_flight(w, init_idx, will_fault))
    /\ init_idx' = IF init_idx + 1 \in DOMAIN fleet THEN init_idx + 1 ELSE 0
    /\ pc' = IF init_idx + 1 \in DOMAIN fleet THEN "frame_init" ELSE "frame"
    /\ UNCHANGED <<frameFrame, current_time_hours_>>

\* One iteration of the loop of update_aircraft_subset.
ProcessAircraftState ==
    /\ pc = "frame"
    /\ current_time_hours_ < simulation_duration_hours_
    /\ init_idx \in DOMAIN fleet
    /\ \E will_fault \in (IF aircraft_frame_data_[init_idx].state = "IDLE"
                          THEN WillFault(fleet[init_idx], battery_level_[init_idx])
                          ELSE {FALSE}) :
          \E w \in process_aircraft_state(frame_world, init_idx, current_time_hours_,
                                          will_fault) :
              SetFrameWorld(w)
    /\ init_idx' = init_idx + 1
    /\ UNCHANGED <<frameFrame, current_time_hours_, pc>>

\* The end of update_frame: the clock advances by one frame.
AdvanceFrame ==
    /\ pc = "frame"
    /\ current_time_hours_ < simulation_duration_hours_
    /\ init_idx \notin DOMAIN fleet
    /\ current_time_hours_' = current_time_hours_ + frame_time_seconds_
    /\ init_idx' = 0
    /\ UNCHANGED <<frameFrame, pc, chargerVars, stats_, battery_level_, frameVars>>

\* The while condition fails; finalize_simulation is entered only with
\* enable_partial_flights set.
FrameLoopExit ==
    /\ pc = "frame"
    /\ ~(current_time_hours_ < simulation_duration_hours_)
    /\ IF enable_partial_flights_
       THEN /\ pc' = IF DOMAIN fleet = {} THEN "frame_done" ELSE "frame_final"
            /\ current_time_hours_' = simulation_duration_hours_
       ELSE /\ pc' = "frame_done"
            /\ UNCHANGED current_time_hours_
    /\ init_idx' = 0
    /\ UNCHANGED <<frameFrame, chargerVars, stats_, battery_level_, frameVars>>

\* One iteration of the loop of finalize_simulation.
FinalizeAircraft ==
    /\ pc = "frame_final"
    /\ init_idx \in DOMAIN fleet
    /\ LET state == aircraft_frame_data_[init_idx].state
       IN SetFrameWorld(CASE state = "FLYING" ->
                                 handle_partial_flight_frame(frame_world, init_idx)
                          [] state = "CHARGING" ->
                                 handle_partial_charging(frame_world, init_idx)
                          [] OTHER -> frame_world)
    /\ init_idx' = init_idx + 1
    /\ pc' = IF init_idx + 1 \in DOMAIN fleet THEN "frame_final" ELSE "frame_done"
    /\ UNCHANGED <<frameFrame, current_time_hours_>>

FrameNext ==
    \/ InitializeAircraftState
    \/ ProcessAircraftState
    \/ AdvanceFrame
    \/ FrameLoopExit
    \/ FinalizeAircraft

FrameSpec == FrameInit /\ [][FrameNext]_vars

\* ------------------------------- the two engines on one fault-free input
\* One of the event-driven kernels and then the frame-based engine run on the
\* same fleet and horizon, each with a fresh collector and charger manager.
\* The fleet is of the types whose flight and charge times are multiples of
\* the frame time, and no flight of either run draws a fault.
FrameAligned(type) ==
    /\ get_flight_time_hours(type, 1) % frame_time_seconds_ = 0
    /\ get_charge_time_hours(type) % frame_time_seconds_ = 0

EquivInit ==
    /\ KernelInit
    /\ run_no = 0
    /\ simulation_duration_hours_ > 0
    /\ simulation_duration_hours_ % frame_time_seconds_ = 0
    /\ \A id \in DOMAIN fleet : FrameAligned(fleet[id])

FaultFreeKernel ==
    \A e \in event_queue_' : e.type # "FAULT_OCCURRED" /\ ~e.fault_occurred

FaultFreeFrame ==
    \A id \in DOMAIN aircraft_frame_data_' : ~aircraft_frame_data_'[id].fault_occurred

KernelScheduleInitialFlight == ScheduleInitialFlight /\ FaultFreeKernel

KernelDispatchFlightComplete == DispatchFlightComplete /\ FaultFreeKernel

KernelDispatchChargingComplete == DispatchChargingComplete /\ FaultFreeKernel

KernelHorizonBreak == HorizonBreak /\ FaultFreeKernel

KernelLoopExit == LoopExit /\ FaultFreeKernel

KernelFinalizeStart == FinalizeStart /\ FaultFreeKernel

KernelDrainPartialFlight == DrainPartialFlight /\ FaultFreeKernel

KernelDrainPartialCharge == DrainPartialCharge /\ FaultFreeKernel

KernelFinish == Finish /\ FaultFreeKernel

\* The kernel's run is over; the frame engine is built for the same fleet and
\* horizon.
StartFrameEngine ==
    /\ pc = "done"
    /\ run_no = 0
    /\ run_no' = 2
    /\ first_stats' = stats_
    /\ engine' = "FrameBasedSimulationEngine"
    /\ enable_partial_flights_' \in BOOLEAN
    /\ battery_level_' = [id \in DOMAIN fleet |-> 1]
    /\ is_faulty_' = [id \in DOMAIN fleet |-> FALSE]
    /\ event_queue_' = {}
    /\ current_time_hours_' = 0
    /\ waiting_start_times_' = EmptyMap
    /\ flight_start_times_' = EmptyMap
    /\ charging_start_times_' = EmptyMap
    /\ SetChargerMgr(NewChargerManager)
    /\ stats_' = [t \in AircraftType |-> ZeroStats]
    /\ pc' = IF DOMAIN fleet = {} THEN "frame" ELSE "frame_init"
    /\ init_idx' = 0
    /\ next_seq' = 0
    /\ last_dispatched' = NoEvent
    /\ arbiter_calls' = << >>
    /\ enq_log' = << >>
    /\ promo_log' = << >>
    /\ partial_rec' = [id \in DOMAIN fleet |-> [flights |-> 0, charges |-> 0]]
    /\ loop_broke' = FALSE
    /\ UNCHANGED <<fleet, simulation_duration_hours_, step_log, step_idx, frameVars>>

FrameInitializeAircraftState == InitializeAircraftState /\ FaultFreeFrame

FrameProcessAircraftState == ProcessAircraftState /\ FaultFreeFrame

FrameAdvanceFrame == AdvanceFrame /\ FaultFreeFrame

FrameEndLoop == FrameLoopExit /\ FaultFreeFrame

FrameFinalizeAircraft == FinalizeAircraft /\ FaultFreeFrame

EquivNext ==
    \/ KernelScheduleInitialFlight
    \/ KernelDispatchFlightComplete
    \/ KernelDispatchChargingComplete
    \/ KernelHorizonBreak
    \/ KernelLoopExit
    \/ KernelFinalizeStart
    \/ KernelDrainPartialFlight
    \/ KernelDrainPartialCharge
    \/ KernelFinish
    \/ StartFrameEngine
    \/ FrameInitializeAircraftState
    \/ FrameProcessAircraftState
    \/ FrameAdvanceFrame
    \/ FrameEndLoop
    \/ FrameFinalizeAircraft

EquivSpec == EquivInit /\ [][EquivNext]_vars

\* ================================================================ claims
Dispatched(type) ==
    /\ last_dispatched' # last_dispatched
    /\ last_dispatched'.type = type

\* C1: every dispatch of a ChargingComplete for aircraft a calls release for
\* a, then dequeues the head of the waiting queue, then acquires a slot for
\* the dequeued aircraft; after the step a holds no charger slot.
C1_ReleaseDequeueAcquire ==
    last_dispatched.type = "CHARGING_COMPLETE" =>
        /\ Len(arbiter_calls) >= 2
        /\ arbiter_calls[1].op = "release_charger"
        /\ arbiter_calls[2].op = "get_next_from_queue"
        /\ last_dispatched.aircraft_id \notin DOMAIN aircraft_to_charger_map_

\* C2: in every reachable state the number of free charger slots plus the
\* number of entries of the aircraft-to-slot map is NUM_CHARGERS.
C2_SlotConservation ==
    Cardinality(available_chargers_) + Cardinality(DOMAIN aircraft_to_charger_map_)
        = NUM_CHARGERS

\* C3: no aircraft id is both recorded as holding a charger slot and present
\* in the waiting queue, and no id is in the waiting queue twice.
C3_AssignedQueuedDisjoint ==
    /\ \A id \in DOMAIN aircraft_to_charger_map_ : id \notin Range(waiting_queue_)
    /\ \A i, j \in DOMAIN waiting_queue_ : waiting_queue_[i] = waiting_queue_[j] => i = j

\* C4: whenever the handling of a ChargingComplete dequeues a waiting
\* aircraft, the slot acquisition made for it succeeds, so the promoted
\* aircraft holds a charger slot.
C4_PromotionAcquires ==
    \A i \in DOMAIN arbiter_calls :
        arbiter_calls[i].op = "assign_charger" =>
            /\ arbiter_calls[i].ok
            /\ arbiter_calls[i].id \in DOMAIN aircraft_to_charger_map_

\* C5: when the main loop stops because the popped event's time is >= T, the
\* event is not lost: after finalization every aircraft in flight at T has
\* exactly one partial flight recorded and every aircraft charging at T has
\* exactly one partial charge recorded.
C5_BreakEventKept ==
    (pc = "done" /\ loop_broke) =>
        \A id \in DOMAIN fleet :
            /\ id \in DOMAIN flight_start_times_ => partial_rec[id].flights = 1
            /\ id \in DOMAIN charging_start_times_ => partial_rec[id].charges = 1

EventsOf(q, id) == {e \in q : e.aircraft_id = id}

\* C6: once an aircraft's faulted flag is set it is never cleared, and from
\* then on the aircraft starts no flight, acquires no charger, starts no
\* charge, does not enter the waiting queue and gets no new event.
C6_StickyFaults ==
    [][\A id \in DOMAIN fleet :
          is_faulty_[id] =>
              /\ is_faulty_'[id]
              /\ id \in DOMAIN flight_start_times_' =>
                    /\ id \in DOMAIN flight_start_times_
                    /\ flight_start_times_'[id] = flight_start_times_[id]
              /\ id \in DOMAIN charging_start_times_' =>
                    /\ id \in DOMAIN charging_start_times_
                    /\ charging_start_times_'[id] = charging_start_times_[id]
              /\ id \in DOMAIN aircraft_to_charger_map_' =>
                    /\ id \in DOMAIN aircraft_to_charger_map_
                    /\ aircraft_to_charger_map_'[id] = aircraft_to_charger_map_[id]
              /\ id \notin Range(waiting_queue_')
              /\ EventsOf(event_queue_', id) \subseteq EventsOf(event_queue_, id)]_vars

\* A faulted aircraft's FlightComplete has been handled while a charger was
\* free for it to take.
C6_Witness ==
    /\ last_dispatched.type = "FLIGHT_COMPLETE"
    /\ is_faulty_[last_dispatched.aircraft_id]
    /\ available_chargers_ # {}
    /\ pc = "loop"

\* C7: a FlightComplete that carries the fault flag is dispatched only after
\* the FaultOccurred of that flight: the aircraft's faulted flag is already
\* set when the handler starts.
C7_FaultPrecedesFlightComplete ==
    [][(Dispatched("FLIGHT_COMPLETE") /\ last_dispatched'.fault_occurred)
          => is_faulty_[last_dispatched'.aircraft_id]]_vars

\* A FlightComplete carrying the fault flag has been dispatched.
C7_Witness ==
    /\ last_dispatched.type = "FLIGHT_COMPLETE"
    /\ last_dispatched.fault_occurred
    /\ is_faulty_[last_dispatched.aircraft_id]
    /\ stats_[fleet[last_dispatched.aircraft_id]].total_faults > 0

\* C8: the times of successively dispatched events are non-decreasing and
\* current_time never decreases; it changes only when an event is popped in
\* the main loop, to that event's time, or at finalization, to T.
C8_MonotoneTime ==
    [][/\ current_time_hours_' >= current_time_hours_
       /\ current_time_hours_' # current_time_hours_ =>
             \/ /\ pc = "loop"
                /\ \E e \in event_queue_ :
                      /\ e \notin event_queue_'
                      /\ current_time_hours_' = e.time_hours
             \/ /\ pc = "finalize"
                /\ current_time_hours_' = simulation_duration_hours_
       /\ last_dispatched' # last_dispatched =>
             last_dispatched'.time_hours >= last_dispatched.time_hours]_vars

\* The clock has advanced over a flight and then a charge.
C8_Witness ==
    /\ last_dispatched.type = "CHARGING_COMPLETE"
    /\ current_time_hours_ > last_dispatched.charge_time
    /\ \E e \in event_queue_ : e.time_hours > current_time_hours_

\* C9: events of equal scheduled time are dispatched in the order of their
\* insertion into the event queue.
C9_TiesInInsertionOrder ==
    [][last_dispatched' # last_dispatched =>
          \A f \in event_queue_ :
              f.time_hours = last_dispatched'.time_hours =>
                  last_dispatched'.seq <= f.seq]_vars

\* C10: promotions follow the order of the add_to_queue calls, and a flight
\* completion is granted a slot only when the waiting queue is empty.
C10_FIFOPromotion ==
    /\ Len(promo_log) <= Len(enq_log)
    /\ \A i \in DOMAIN promo_log : promo_log[i].id = enq_log[i].id
    /\ (/\ last_dispatched.type = "FLIGHT_COMPLETE"
        /\ arbiter_calls # << >>
        /\ arbiter_calls[1].ok) => waiting_queue_ = << >>

\* An aircraft has been promoted while another, enqueued after it and before
\* the promotion, is still waiting.
C10_Witness ==
    /\ promo_log # << >>
    /\ waiting_queue_ # << >>
    /\ Len(enq_log) > Len(promo_log)
    /\ enq_log[Len(promo_log) + 1].id = Head(waiting_queue_)
    /\ enq_log[Len(promo_log) + 1].id # promo_log[Len(promo_log)].id
    /\ enq_log[Len(promo_log) + 1].t < promo_log[Len(promo_log)].t

\* The promotions that started the charge aircraft id is in.
PromotionsOf(id) ==
    {i \in DOMAIN promo_log :
        /\ promo_log[i].id = id
        /\ id \in DOMAIN charging_start_times_
        /\ promo_log[i].t = charging_start_times_[id]}

\* C11: the waiting time a pending ChargingComplete carries is the time the
\* aircraft's charge was started by promotion minus the time of the
\* FlightComplete that enqueued it, and 0 when the charge was started by the
\* FlightComplete itself.
C11_WaitingTimeCarried ==
    \A e \in event_queue_ :
        e.type = "CHARGING_COMPLETE" =>
            IF PromotionsOf(e.aircraft_id) # {}
            THEN \A i \in PromotionsOf(e.aircraft_id) :
                    /\ i \in DOMAIN enq_log
                    /\ enq_log[i].id = e.aircraft_id
                    /\ e.waiting_time = promo_log[i].t - enq_log[i].t
            ELSE e.waiting_time = 0

\* A promoted aircraft's ChargingComplete is pending and carries a positive
\* wait, while an aircraft granted at once has had its charge recorded.
C11_Witness ==
    /\ \E e \in event_queue_ :
          /\ e.type = "CHARGING_COMPLETE"
          /\ e.waiting_time > 0
          /\ PromotionsOf(e.aircraft_id) # {}
    /\ \E t \in AircraftType :
          /\ stats_[t].charge_count > 0
          /\ stats_[t].total_waiting_time_hours = 0

\* C12: every FlightComplete and ChargingComplete handled in the main loop is
\* dispatched at its activity's start plus its duration, and no event whose
\* scheduled time is at or after T is dispatched.
C12_HorizonRespect ==
    [][last_dispatched' # last_dispatched =>
          LET e == last_dispatched'
          IN /\ e.time_hours < simulation_duration_hours_
             /\ e.type = "FLIGHT_COMPLETE" =>
                   /\ e.aircraft_id \in DOMAIN flight_start_times_
                   /\ e.time_hours = flight_start_times_[e.aircraft_id] + e.flight_time
             /\ e.type = "CHARGING_COMPLETE" =>
                   /\ e.aircraft_id \in DOMAIN charging_start_times_
                   /\ e.time_hours = charging_start_times_[e.aircraft_id] + e.charge_time]_vars

\* A completion has been dispatched while another event is due at T.
C12_Witness ==
    /\ last_dispatched.type \in {"FLIGHT_COMPLETE", "CHARGING_COMPLETE"}
    /\ stats_[fleet[last_dispatched.aircraft_id]].flight_count > 0
    /\ \E e \in event_queue_ : e.time_hours = simulation_duration_hours_

\* C13: a partial flight recorded at finalization has hours = T - flight start,
\* between 0 and the flight's full duration, and miles = hours * cruise speed
\* (the flight's distance in proportion); a partial charge has hours =
\* T - charge start, between 0 and the charge's full duration.
C13_PartialBounds ==
    [][\A id \in DOMAIN fleet :
          LET was == stats_[fleet[id]]
              now == stats_'[fleet[id]]
              flown == now.partial_flight_time_hours - was.partial_flight_time_hours
              miles == now.partial_distance_miles - was.partial_distance_miles
              charged == now.partial_charging_time_hours - was.partial_charging_time_hours
          IN /\ partial_rec'[id].flights # partial_rec[id].flights =>
                   \E e \in event_queue_ \ event_queue_' :
                       /\ e.type = "FLIGHT_COMPLETE"
                       /\ e.aircraft_id = id
                       /\ id \in DOMAIN flight_start_times_
                       /\ flown = simulation_duration_hours_ - flight_start_times_[id]
                       /\ 0 <= flown
                       /\ flown <= e.flight_time
                       /\ e.distance = e.flight_time * AircraftSpec[fleet[id]].cruise_speed_mph
                       /\ miles = flown * AircraftSpec[fleet[id]].cruise_speed_mph
             /\ partial_rec'[id].charges # partial_rec[id].charges =>
                   \E e \in event_queue_ \ event_queue_' :
                       /\ e.type = "CHARGING_COMPLETE"
                       /\ e.aircraft_id = id
                       /\ id \in DOMAIN charging_start_times_
                       /\ charged = simulation_duration_hours_ - charging_start_times_[id]
                       /\ 0 <= charged
                       /\ charged <= e.charge_time]_vars

\* The run ended with a flight cut short of its duration recorded as partial
\* and a partial charge recorded.
C13_Witness ==
    /\ pc = "done"
    /\ \E id \in DOMAIN fleet :
          /\ partial_rec[id].flights = 1
          /\ id \in DOMAIN flight_start_times_
          /\ flight_start_times_[id] > 0
          /\ simulation_duration_hours_ - flight_start_times_[id]
                 < get_flight_time_hours(fleet[id], 1)
    /\ \E id \in DOMAIN fleet : partial_rec[id].charges = 1

\* C14: after any sequence of record operations with non-negative arguments,
\* every type's partial flight hours, partial miles, partial charge hours,
\* partial flight count and partial charge count are at most the
\* corresponding totals.
C14_PartialWithinTotal ==
    \A t \in AircraftType :
        /\ stats_[t].partial_flight_time_hours <= stats_[t].total_flight_time_hours
        /\ stats_[t].partial_distance_miles <= stats_[t].total_distance_miles
        /\ stats_[t].partial_charging_time_hours <= stats_[t].total_charging_time_hours
        /\ stats_[t].partial_flight_count <= stats_[t].flight_count
        /\ stats_[t].partial_charge_count <= stats_[t].charge_count

\* A type has a partial flight with positive hours and miles next to a
\* completed flight.
C14_Witness ==
    /\ pc = "stats"
    /\ \E t \in AircraftType :
          /\ stats_[t].partial_flight_count >= 1
          /\ stats_[t].flight_count > stats_[t].partial_flight_count
          /\ stats_[t].partial_flight_time_hours > 0
          /\ stats_[t].partial_distance_miles > 0

\* C15: a type's total waiting hours change only in the step that dispatches
\* a ChargingComplete of that type before the horizon, by the waiting time the
\* event carries; finalization (partial charges, aircraft still queued) adds
\* nothing to them.
C15_WaitingOnlyOnChargeComplete ==
    [][\A t \in AircraftType :
          stats_'[t].total_waiting_time_hours # stats_[t].total_waiting_time_hours =>
              /\ pc = "loop"
              /\ Dispatched("CHARGING_COMPLETE")
              /\ last_dispatched'.time_hours < simulation_duration_hours_
              /\ fleet[last_dispatched'.aircraft_id] = t
              /\ stats_'[t].total_waiting_time_hours =
                     stats_[t].total_waiting_time_hours + last_dispatched'.waiting_time]_vars

\* The run ended with a partial charge recorded for an aircraft that had
\* waited for it, while another aircraft was still in the waiting queue.
C15_Witness ==
    /\ pc = "done"
    /\ waiting_queue_ # << >>
    /\ \E id \in DOMAIN fleet :
          /\ partial_rec[id].charges = 1
          /\ \E i \in PromotionsOf(id) : promo_log[i].t > enq_log[i].t
          /\ stats_[fleet[id]].total_waiting_time_hours = 0

\* C16: the FlightComplete of a flight in which a fault fired records one
\* completed flight with the full scheduled duration and distance; the fault
\* was counted once, at its FaultOccurred; the aircraft takes no charger,
\* enters no queue and has no event left, and no charge session, complete or
\* partial, is recorded for a faulted aircraft.
C16_FaultedFlightCompletes ==
    [][/\ (Dispatched("FLIGHT_COMPLETE") /\ last_dispatched'.fault_occurred) =>
             LET id == last_dispatched'.aircraft_id
                 was == stats_[fleet[id]]
                 now == stats_'[fleet[id]]
             IN /\ is_faulty_[id]
                /\ now.flight_count = was.flight_count + 1
                /\ now.total_flight_time_hours =
                       was.total_flight_time_hours + get_flight_time_hours(fleet[id], 1)
                /\ now.total_distance_miles =
                       was.total_distance_miles + get_flight_distance_miles(fleet[id], 1)
                /\ now.partial_flight_count = was.partial_flight_count
                /\ now.total_faults = was.total_faults
                /\ now.charge_count = was.charge_count
                /\ UNCHANGED chargerVars
                /\ id \notin DOMAIN charging_start_times_'
                /\ EventsOf(event_queue_', id) = {}
       /\ Dispatched("FAULT_OCCURRED") =>
             LET id == last_dispatched'.aircraft_id
             IN /\ ~is_faulty_[id]
                /\ stats_'[fleet[id]].total_faults = stats_[fleet[id]].total_faults + 1
                /\ \A t \in AircraftType \ {fleet[id]} :
                       stats_'[t].total_faults = stats_[t].total_faults
       /\ Dispatched("CHARGING_COMPLETE") => ~is_faulty_[last_dispatched'.aircraft_id]
       /\ \A id \in DOMAIN fleet :
             partial_rec'[id].charges # partial_rec[id].charges => ~is_faulty_[id]]_vars

\* A faulted aircraft's flight was completed before the horizon with a charger
\* free, and the run has ended with one fault and no charge for its type.
C16_Witness ==
    /\ pc = "done"
    /\ \E id \in DOMAIN fleet :
          /\ is_faulty_[id]
          /\ id \notin DOMAIN flight_start_times_
          /\ available_chargers_ # {}
          /\ stats_[fleet[id]].total_faults = 1
          /\ stats_[fleet[id]].flight_count >= 1
          /\ stats_[fleet[id]].charge_count = 0

\* C17: an aircraft is marked faulted, and a type's fault count changes, only
\* in the step that dispatches a FaultOccurred whose time is before T; a
\* FaultOccurred scheduled at or after T is never applied.
C17_LateFaultNotApplied ==
    [][(\/ is_faulty_' # is_faulty_
        \/ \E t \in AircraftType : stats_'[t].total_faults # stats_[t].total_faults) =>
          /\ pc = "loop"
          /\ Dispatched("FAULT_OCCURRED")
          /\ last_dispatched'.time_hours < simulation_duration_hours_
          /\ last_dispatched' \in event_queue_
          /\ \A id \in DOMAIN fleet :
                is_faulty_'[id] # is_faulty_[id] => id = last_dispatched'.aircraft_id]_vars

\* At the end of the run an aircraft whose flight drew a fault at or after T
\* is not faulted and its type has no fault counted.
C17_Witness ==
    /\ pc = "drain"
    /\ \E e \in event_queue_ :
          /\ e.type = "FLIGHT_COMPLETE"
          /\ e.fault_occurred
          /\ ~is_faulty_[e.aircraft_id]
          /\ stats_[fleet[e.aircraft_id]].total_faults = 0
          /\ \A f \in event_queue_ : f.type # "FAULT_OCCURRED"

\* C18: a run with an empty fleet, or with horizon T = 0 and any fleet, ends
\* with every per-type statistic zero, all chargers free and the waiting
\* queue empty.
C18_ZeroRunAllZero ==
    (/\ pc = "done"
     /\ (DOMAIN fleet = {} \/ simulation_duration_hours_ = 0)) =>
        /\ \A t \in AircraftType : stats_[t] = ZeroStats
        /\ available_chargers_ = 0 .. (NUM_CHARGERS - 1)
        /\ aircraft_to_charger_map_ = EmptyMap
        /\ active_chargers_ = 0
        /\ waiting_queue_ = << >>

C20_Terminates ==
    <>(/\ pc = "done"
       /\ event_queue_ = {}
       /\ current_time_hours_ = simulation_duration_hours_)

\* A run over a positive horizon has ended after its loop ran out of events
\* before the horizon, with flights flown and the clock set to T.
C20_Witness ==
    /\ pc = "done"
    /\ ~loop_broke
    /\ simulation_duration_hours_ > 0
    /\ last_dispatched.type = "FLIGHT_COMPLETE"
    /\ last_dispatched.time_hours < simulation_duration_hours_
    /\ current_time_hours_ = simulation_duration_hours_

\* The aircraft that have a ChargingComplete pending.
Charging == {e.aircraft_id : e \in {f \in event_queue_ : f.type = "CHARGING_COMPLETE"}}

Called(op) ==
    /\ arbiter_calls' # << >>
    /\ arbiter_calls'[1].op = op

\* C22: release_charger for an aircraft id that holds no slot changes
\* nothing: free slots, assignments, active count and waiting queue stay as
\* they are, at every such call.
C22_ReleaseNonHolderNoOp ==
    [][(/\ Called("release_charger")
        /\ arbiter_calls'[1].id \notin DOMAIN aircraft_to_charger_map_)
          => UNCHANGED chargerVars]_vars

\* release_charger has been called for an aircraft that holds no slot, while
\* other aircraft hold slots and the waiting queue is not empty.
C22_Witness ==
    /\ pc = "arbiter"
    /\ arbiter_calls # << >>
    /\ arbiter_calls[1].op = "release_charger"
    /\ ~arbiter_calls[1].ok
    /\ arbiter_calls[1].id \notin DOMAIN aircraft_to_charger_map_
    /\ aircraft_to_charger_map_ # EmptyMap
    /\ waiting_queue_ # << >>
    /\ active_chargers_ > 0

\* The least element of a non-empty set of slot numbers.
LowestOf(slots) == CHOOSE c \in slots : \A d \in slots : c <= d

\* C23: a charger request made while slots are free assigns the requesting
\* aircraft the lowest-numbered free slot.
C23_LowestFreeSlot ==
    [][((Called("request_charger") \/ Called("assign_charger")) /\ available_chargers_ # {})
          => LET id == arbiter_calls'[1].id
             IN /\ id \in DOMAIN aircraft_to_charger_map_'
                /\ aircraft_to_charger_map_'[id] = LowestOf(available_chargers_)]_vars

\* C24: a charger request made when no slot is free returns false, a dequeue
\* on an empty waiting queue returns -1, and either leaves free slots, active
\* count, assignments and queue unchanged.
C24_FailureOutcomes ==
    [][/\ ((Called("request_charger") \/ Called("assign_charger")) /\ available_chargers_ = {})
             => /\ arbiter_calls'[1].ok = FALSE
                /\ UNCHANGED chargerVars
       /\ (Called("get_next_from_queue") /\ waiting_queue_ = << >>)
             => /\ arbiter_calls'[1].id = -1
                /\ UNCHANGED chargerVars]_vars

\* A charger request has just failed with every slot taken, and the waiting
\* queue is empty, so that a dequeue fails as well.
C24_Witness ==
    /\ pc = "arbiter"
    /\ arbiter_calls # << >>
    /\ arbiter_calls[1].op = "request_charger"
    /\ ~arbiter_calls[1].ok
    /\ available_chargers_ = {}
    /\ active_chargers_ = NUM_CHARGERS
    /\ waiting_queue_ = << >>

\* C25: after any sequence of request_charger, assign_charger,
\* release_charger, add_to_queue and get_next_from_queue calls,
\* get_active_chargers() + get_available_chargers() = get_total_chargers()
\* and 0 <= get_active_chargers() <= 3.
C25_ActivePlusAvailable ==
    /\ active_chargers_ + Cardinality(available_chargers_) = NUM_CHARGERS
    /\ 0 <= active_chargers_
    /\ active_chargers_ <= 3

\* An aircraft has requested twice and holds one slot on record while two
\* are in use, and a release by a non-holder has just been made.
C25_Witness ==
    /\ pc = "arbiter"
    /\ Cardinality(DOMAIN aircraft_to_charger_map_) < active_chargers_
    /\ arbiter_calls # << >>
    /\ arbiter_calls[1].op = "release_charger"
    /\ ~arbiter_calls[1].ok

\* C26: after initialization and before the first pop, for every horizon
\* T > 0, the event queue holds exactly one FlightComplete for every aircraft
\* of the fleet, at most one FaultOccurred per aircraft, and nothing else.
C26_OneFlightCompleteEach ==
    (/\ pc = "loop"
     /\ last_dispatched = NoEvent
     /\ simulation_duration_hours_ > 0) =>
        /\ \A id \in DOMAIN fleet :
              /\ Cardinality({e \in EventsOf(event_queue_, id) :
                                 e.type = "FLIGHT_COMPLETE"}) = 1
              /\ Cardinality({e \in EventsOf(event_queue_, id) :
                                 e.type = "FAULT_OCCURRED"}) <= 1
        /\ \A e \in event_queue_ :
              /\ e.aircraft_id \in DOMAIN fleet
              /\ e.type \in {"FLIGHT_COMPLETE", "FAULT_OCCURRED"}

\* C28: while an aircraft is in the waiting queue before the horizon, the
\* event queue is not empty and some aircraft is charging, so that the
\* waiting aircraft will be promoted unless the horizon comes first.
C28_WaitingImpliesCharging ==
    (/\ pc = "loop"
     /\ waiting_queue_ # << >>
     /\ current_time_hours_ < simulation_duration_hours_) =>
        /\ event_queue_ # {}
        /\ DOMAIN charging_start_times_ # {}

\* C29: handling the ChargingComplete of a non-faulted aircraft at time t < T
\* starts its next flight in the same step: flight_start_times_[id] = t and
\* its next FlightComplete is scheduled for t + flight_time.
C29_NextFlightSameStep ==
    [][(/\ Dispatched("CHARGING_COMPLETE")
        /\ ~is_faulty_[last_dispatched'.aircraft_id]
        /\ last_dispatched'.time_hours < simulation_duration_hours_) =>
          LET id == last_dispatched'.aircraft_id
              t == last_dispatched'.time_hours
          IN /\ id \in DOMAIN flight_start_times_'
             /\ flight_start_times_'[id] = t
             /\ \E e \in event_queue_' :
                   /\ e.type = "FLIGHT_COMPLETE"
                   /\ e.aircraft_id = id
                   /\ e.time_hours = t + get_flight_time_hours(fleet[id], 1)]_vars

\* The transition table: the pairs (from, to) an aircraft's state may change by.
TransitionTable ==
    {<<"IDLE", "FLYING">>,
     <<"FLYING", "CHARGING">>, <<"FLYING", "WAITING_FOR_CHARGER">>, <<"FLYING", "FAULT">>,
     <<"CHARGING", "IDLE">>, <<"CHARGING", "FAULT">>,
     <<"WAITING_FOR_CHARGER", "CHARGING">>, <<"WAITING_FOR_CHARGER", "FAULT">>}

\* C30: in the frame-based engine every change of an aircraft's state is a
\* pair of the transition table (none leaves FAULT; a fresh aircraft is IDLE),
\* and transition_to on a pair outside the table returns false and leaves the
\* state unchanged.
C30_TransitionTable ==
    [][/\ \A id \in DOMAIN aircraft_frame_data_' :
             LET from_state == IF id \in DOMAIN aircraft_frame_data_
                               THEN aircraft_frame_data_[id].state
                               ELSE NewFrameData.state
                 to_state == aircraft_frame_data_'[id].state
             IN to_state # from_state => <<from_state, to_state>> \in TransitionTable
       /\ \A from_state \in AircraftState, to_state \in AircraftState :
             <<from_state, to_state>> \notin TransitionTable =>
                 LET fd == [NewFrameData EXCEPT !.state = from_state]
                 IN transition_to(fd, to_state) = [ok |-> FALSE, fd |-> fd]]_vars

\* A run of the frame engine has ended with an aircraft in FAULT after an
\* aircraft of its type had waited for a charger, charged and flown again.
C30_Witness ==
    /\ pc = "frame_done"
    /\ \E id \in DOMAIN aircraft_frame_data_ :
          /\ aircraft_frame_data_[id].state = "FAULT"
          /\ stats_[fleet[id]].total_waiting_time_hours > 0
          /\ stats_[fleet[id]].total_faults > 0
    /\ \E id \in DOMAIN aircraft_frame_data_ : aircraft_frame_data_[id].state = "FLYING"

\* The flights and charges a collector counts as completed, not partial.
CompletedFlights(s) == s.flight_count - s.partial_flight_count

CompletedCharges(s) == s.charge_count - s.partial_charge_count

\* C27: for a fault-free fleet whose flight and charge durations are
\* multiples of the frame time, the frame-based engine ends with the same
\* per-type completed flight count and completed charge count as the
\* event-driven engine run on the same fleet, chargers and horizon.
C27_FrameMatchesEventDriven ==
    (pc = "frame_done" /\ run_no = 2) =>
        \A t \in AircraftType :
            /\ CompletedFlights(stats_[t]) = CompletedFlights(first_stats[t])
            /\ CompletedCharges(stats_[t]) = CompletedCharges(first_stats[t])

\* C31: in the frame-based engine an activity that goes on through a frame
\* has its remaining time reduced by exactly one frame time in that frame,
\* and the partial flight hours recorded for an aircraft at the horizon never
\* exceed the simulated time that has elapsed (no flight started before 0).
C31_OneFrameTimePerFrame ==
    [][/\ \A id \in DOMAIN aircraft_frame_data_ :
             (/\ pc = "frame"
              /\ id \in DOMAIN aircraft_frame_data_'
              /\ aircraft_frame_data_[id].state \in {"FLYING", "CHARGING"}
              /\ aircraft_frame_data_'[id].state = aircraft_frame_data_[id].state
              /\ aircraft_frame_data_'[id] # aircraft_frame_data_[id]) =>
                 aircraft_frame_data_'[id].time_remaining =
                     aircraft_frame_data_[id].time_remaining - frame_time_seconds_
       /\ (pc = "frame_final" /\ engine = "FrameBasedSimulationEngine") =>
             \A t \in AircraftType :
                 stats_'[t].partial_flight_time_hours - stats_[t].partial_flight_time_hours
                     <= current_time_hours_]_vars

\* The pending FlightComplete and ChargingComplete events of an aircraft.
PendingCompletions(id) ==
    {e \in event_queue_ : /\ e.aircraft_id = id
                          /\ e.type \in {"FLIGHT_COMPLETE", "CHARGING_COMPLETE"}}

\* C32: at any time each aircraft has at most one pending FlightComplete or
\* ChargingComplete event in the event queue, is in the waiting queue at most
\* once, and is never both in the waiting queue and the owner of a pending
\* FlightComplete or ChargingComplete.
C32_OneActivityPerAircraft ==
    /\ \A id \in DOMAIN fleet : Cardinality(PendingCompletions(id)) <= 1
    /\ \A i, j \in DOMAIN waiting_queue_ : waiting_queue_[i] = waiting_queue_[j] => i = j
    /\ \A id \in Range(waiting_queue_) : PendingCompletions(id) = {}

\* Two aircraft wait in the queue while a third one has its ChargingComplete
\* pending and another flight has already been completed after a charge.
C32_Witness ==
    /\ Len(waiting_queue_) >= 2
    /\ \E id \in DOMAIN fleet :
          \E e \in PendingCompletions(id) : e.type = "CHARGING_COMPLETE"
    /\ \E t \in AircraftType : stats_[t].charge_count > 0 /\ stats_[t].flight_count > 1

\* C33: an aircraft id is in the waiting queue exactly when it has an entry
\* in waiting_start_times_: the entry is written in the step that enqueues
\* the id and erased in the step that promotes it.
C33_QueuedIffWaitStart ==
    Range(waiting_queue_) = DOMAIN waiting_start_times_

\* An aircraft that was promoted after a wait of positive length is charging
\* without an entry while another one is still waiting with its entry.
C33_Witness ==
    /\ waiting_queue_ # << >>
    /\ DOMAIN waiting_start_times_ # {}
    /\ \E e \in event_queue_ :
          /\ e.type = "CHARGING_COMPLETE"
          /\ e.waiting_time > 0
          /\ e.aircraft_id \notin DOMAIN waiting_start_times_

\* C34: whenever the waiting queue is not empty no charger slot is free.
C34_NoIdleSlotWhileWaiting ==
    waiting_queue_ # << >> => available_chargers_ = {}

\* An aircraft waits, every slot is taken, and a charge has been completed
\* since the run began.
C34_Witness ==
    /\ waiting_queue_ # << >>
    /\ available_chargers_ = {}
    /\ \E t \in AircraftType : stats_[t].charge_count > 0

\* The aircraft of a type.
AircraftOfType(t) == {id \in DOMAIN fleet : fleet[id] = t}

\* C35: for every type, in every reachable state, charge_count is at most
\* flight_count - partial_flight_count: each charge session, complete or
\* partial, follows a completed flight of its aircraft; completed flights and
\* charge sessions of an aircraft alternate, so the completed flights of a
\* type are ahead of its charge sessions by at most one per aircraft.
C35_ChargesFollowFlights ==
    \A t \in AircraftType :
        /\ stats_[t].charge_count <= stats_[t].flight_count - stats_[t].partial_flight_count
        /\ stats_[t].flight_count - stats_[t].partial_flight_count - stats_[t].charge_count
               <= Cardinality(AircraftOfType(t))

\* A type has completed a second flight after a charge session, and a type
\* has a partial charge on record.
C35_Witness ==
    /\ \E t \in AircraftType :
          /\ stats_[t].charge_count > 0
          /\ stats_[t].flight_count - stats_[t].partial_flight_count > stats_[t].charge_count
          /\ Cardinality(AircraftOfType(t)) = 1
    /\ \E t \in AircraftType : stats_[t].partial_charge_count > 0

\* The faults on record, summed over the types.
TotalFaults(st) ==
    st["ALPHA"].total_faults + st["BETA"].total_faults + st["CHARLIE"].total_faults
        + st["DELTA"].total_faults + st["ECHO"].total_faults

C37_RequestReleaseRoundTrip ==
    \A aircraft_id \in AircraftIds :
        (aircraft_id \notin DOMAIN aircraft_to_charger_map_ /\ available_chargers_ # {}) =>
            \A c \in BeginOf(available_chargers_) :
                LET requested == request_charger(charger_mgr, aircraft_id, c)
                IN /\ aircraft_id \in DOMAIN requested.aircraft_to_charger_map_
                   /\ requested # charger_mgr
                   /\ release_charger(requested, aircraft_id) = charger_mgr

\* An aircraft has just released the slot it held and holds none, while a
\* slot is free, another aircraft holds one and an aircraft is queued.
C37_Witness ==
    /\ arbiter_calls # << >>
    /\ arbiter_calls[1].op = "release_charger"
    /\ arbiter_calls[1].ok
    /\ arbiter_calls[1].id \notin DOMAIN aircraft_to_charger_map_
    /\ available_chargers_ # {}
    /\ DOMAIN aircraft_to_charger_map_ # {}
    /\ waiting_queue_ # << >>

\* The types whose record a step of the collector changes.
TypesTouched == {t \in AircraftType : stats_'[t] # stats_[t]}

\* C38: every record operation of the collector (record_flight,
\* record_charge_session, record_fault, record_partial_flight,
\* record_partial_charge) applied to a type leaves the records of all other
\* types unchanged, and record_fault, the one operation that changes a
\* total_faults, changes nothing else of that type's record: no flight,
\* charge, waiting or passenger field.
C38_RecordTouchesOneType ==
    [][/\ Cardinality(TypesTouched) <= 1
       /\ \A t \in AircraftType :
             stats_'[t].total_faults # stats_[t].total_faults =>
                 stats_' = [stats_ EXCEPT ![t].total_faults = @ + 1]]_vars

\* A fault is on the record of one type and nothing else is, while another
\* type has a flight with time, distance and passenger miles on record.
C38_Witness ==
    \E x \in AircraftType, y \in AircraftType :
        /\ x # y
        /\ stats_[x] = [ZeroStats EXCEPT !.total_faults = 1]
        /\ stats_[y].flight_count = 1
        /\ stats_[y].total_flight_time_hours > 0
        /\ stats_[y].total_passenger_miles > 0

====
